---- MODULE Spec2Model ----
(***************************************************************************)
(* pyMission: the segment assembly (segment.py) and the three-segment      *)
(* mission script (multipoint.py) as a state machine.                      *)
(*                                                                         *)
(* Numeric arrays are abstracted to integer codes; a residual norm is      *)
(* kept as its decimal exponent (norm = 10^e), so that atol = rtol = 1e-9  *)
(* are the exponent -9 and a ratio of norms is a difference of exponents.  *)
(***************************************************************************)
EXTENDS Integers, Sequences, FiniteSets, TLC

\* ------------------------------------------------------------------------
\* Bounds of the model
\* ------------------------------------------------------------------------
MaxComm == 4
MaxRuns == 2
ValueMod == 1009

\* ------------------------------------------------------------------------
\* Program constants
\* ------------------------------------------------------------------------
num_elem == 50
num_cp == 10
max_iteration_16 == 15 + 1
max_iteration == 15
atol == -9
rtol == -9
wt_pax == 824

Segs == {"seg1", "seg2", "seg3"}
SegOrder == <<"seg1", "seg2", "seg3">>

SegIndex(s) == CHOOSE i \in 1..3 : SegOrder[i] = s

\* x_range of each leg, nautical miles
XRange(s) == CASE s = "seg1" -> 9000 [] s = "seg2" -> 7000 [] OTHER -> 5000

\* the values the script writes to the boundary attributes (x 1000)
DesignParams ==
  [S |-> 4278, ac_w |-> 2060, thrust_sl |-> 1020, SFCSL |-> 87809,
   AR |-> 8680, oswald |-> 800]

ParamKeys == {"S", "ac_w", "thrust_sl", "SFCSL", "AR", "oswald"}

\* ------------------------------------------------------------------------
\* The parameter source: what execfile(params_file, data) can find
\* ------------------------------------------------------------------------
\* a file whose values are not the ones the script writes later
OtherParams == [k \in ParamKeys |-> DesignParams[k] + 1]

ParamFiles ==
  { [kind |-> "ok", params |-> DesignParams],
    [kind |-> "ok", params |-> OtherParams],
    [kind |-> "missing_file", params |-> DesignParams],
    [kind |-> "missing_key", params |-> DesignParams] }

\* ------------------------------------------------------------------------
\* The constructor of MissionSegment as the list of its statements
\* ------------------------------------------------------------------------
NoPort == <<"", "">>
Self == "self"

OpLoad == [op |-> "load", name |-> "", src |-> NoPort, dst |-> NoPort]
OpAdd(n) == [op |-> "add", name |-> n, src |-> NoPort, dst |-> NoPort]
OpConn(a, av, b, bv) ==
  [op |-> "connect", name |-> "", src |-> <<a, av>>, dst |-> <<b, bv>>]
OpPass(a, av) ==
  [op |-> "passthrough", name |-> "", src |-> <<a, av>>, dst |-> NoPort]
OpParam(a, av) ==
  [op |-> "parameter", name |-> "", src |-> <<a, av>>, dst |-> NoPort]
OpConstr(a, av) ==
  [op |-> "constraint", name |-> "", src |-> <<a, av>>, dst |-> NoPort]
OpWorkflow == [op |-> "workflow", name |-> "", src |-> NoPort, dst |-> NoPort]
OpSettings == [op |-> "settings", name |-> "", src |-> NoPort, dst |-> NoPort]

CL == "SysTripanCLSurrogate"
CM == "SysTripanCMSurrogate"
CD == "SysTripanCDSurrogate"

\* parameters and surrogate tables, the boundary input, the splines
CtorSplines ==
  << OpLoad,
     OpAdd("pax_flt"),
     OpAdd("SysXBspline"), OpAdd("SysHBspline"), OpAdd("SysMVBspline"),
     OpAdd("SysGammaBspline") >>

\* atmospherics
CtorAtmospherics ==
  << OpAdd("SysSFC"), OpAdd("SysTemp"), OpAdd("SysRho"), OpAdd("SysSpeed"),
     OpConn("SysHBspline", "h", "SysSFC", "h"),
     OpConn("SysHBspline", "h", "SysTemp", "h"),
     OpConn("SysHBspline", "h", "SysRho", "h"),
     OpConn("SysTemp", "temp", "SysRho", "temp"),
     OpConn("SysTemp", "temp", "SysSpeed", "temp"),
     OpConn("SysMVBspline", "M", "SysSpeed", "M"),
     OpConn("SysMVBspline", "v_spline", "SysSpeed", "v_spline") >>

\* the components of the coupled system
CtorCoupled ==
  << OpAdd("SysCLTar"),
     OpConn("SysRho", "rho", "SysCLTar", "rho"),
     OpConn("SysGammaBspline", "Gamma", "SysCLTar", "Gamma"),
     OpConn("SysSpeed", "v", "SysCLTar", "v"),
     OpAdd(CL),
     OpConn("SysMVBspline", "M", CL, "M"),
     OpConn("SysHBspline", "h", CL, "h"),
     OpConn("SysCLTar", "CL", CL, "CL_tar"),
     OpAdd(CM),
     OpConn("SysMVBspline", "M", CM, "M"),
     OpConn("SysHBspline", "h", CM, "h"),
     OpConn(CL, "alpha", CM, "alpha"),
     OpAdd(CD),
     OpConn("SysMVBspline", "M", CD, "M"),
     OpConn("SysHBspline", "h", CD, "h"),
     OpConn(CM, "eta", CD, "eta"),
     OpConn(CL, "alpha", CD, "alpha"),
     OpAdd("SysCTTar"),
     OpConn("SysGammaBspline", "Gamma", "SysCTTar", "Gamma"),
     OpConn(CD, "CD", "SysCTTar", "CD"),
     OpConn(CL, "alpha", "SysCTTar", "alpha"),
     OpConn("SysRho", "rho", "SysCTTar", "rho"),
     OpConn("SysSpeed", "v", "SysCTTar", "v"),
     OpAdd("SysFuelWeight"),
     OpConn("SysSpeed", "v", "SysFuelWeight", "v"),
     OpConn("SysGammaBspline", "Gamma", "SysFuelWeight", "Gamma"),
     OpConn("SysCTTar", "CT_tar", "SysFuelWeight", "CT_tar"),
     OpConn("SysXBspline", "x", "SysFuelWeight", "x"),
     OpConn("SysSFC", "SFC", "SysFuelWeight", "SFC"),
     OpConn("SysRho", "rho", "SysFuelWeight", "rho") >>

\* the same statements with the fuel weight also made a solver state
CtorSolver_extra ==
  << OpAdd("coupled_solver"),
     OpConn("SysFuelWeight", "fuel_w", "SysCLTar", "fuel_w"),
     OpConn("SysCTTar", "CT_tar", "SysCLTar", "CT_tar"),
     OpConn(CL, "alpha", "SysCLTar", "alpha"),
     OpConn(CM, "eta", CL, "eta"),
     OpConn("SysFuelWeight", "fuel_w", "SysCTTar", "fuel_w"),
     OpParam("SysCLTar", "fuel_w"),
     OpParam(CL, "alpha"),
     OpConstr(CL, "alpha_res"),
     OpParam(CM, "eta"),
     OpConstr(CM, "CM") >>

\* the Newton solver: direct connections (cycles), parameters, constraints
CtorSolver ==
  << OpAdd("coupled_solver"),
     OpConn("SysFuelWeight", "fuel_w", "SysCLTar", "fuel_w"),
     OpConn("SysCTTar", "CT_tar", "SysCLTar", "CT_tar"),
     OpConn(CL, "alpha", "SysCLTar", "alpha"),
     OpConn(CM, "eta", CL, "eta"),
     OpConn("SysFuelWeight", "fuel_w", "SysCTTar", "fuel_w"),
     OpParam(CL, "alpha"),
     OpConstr(CL, "alpha_res"),
     OpParam(CM, "eta"),
     OpConstr(CM, "CM") >>

\* the same statements with one connection aimed at a port that SysRho
\* already feeds
CtorFunctionals_dup ==
  << OpAdd("SysTau"), OpAdd("SysTmin"), OpAdd("SysTmax"),
     OpAdd("SysFuelObj"), OpAdd("SysBlockTime"),
     OpConn("SysRho", "rho", "SysTau", "rho"),
     OpConn("SysCTTar", "CT_tar", "SysTau", "rho"),
     OpConn("SysHBspline", "h", "SysTau", "h"),
     OpConn("SysSpeed", "v", "SysTau", "v"),
     OpConn("SysTau", "tau", "SysTmin", "tau"),
     OpConn("SysTau", "tau", "SysTmax", "tau"),
     OpConn("SysFuelWeight", "fuel_w", "SysFuelObj", "fuel_w"),
     OpConn("SysXBspline", "x", "SysBlockTime", "x"),
     OpConn("SysSpeed", "v", "SysBlockTime", "v"),
     OpConn("SysGammaBspline", "Gamma", "SysBlockTime", "Gamma") >>

\* downstream of the solver
CtorFunctionals ==
  << OpAdd("SysTau"), OpAdd("SysTmin"), OpAdd("SysTmax"),
     OpAdd("SysFuelObj"), OpAdd("SysBlockTime"),
     OpConn("SysRho", "rho", "SysTau", "rho"),
     OpConn("SysCTTar", "CT_tar", "SysTau", "CT_tar"),
     OpConn("SysHBspline", "h", "SysTau", "h"),
     OpConn("SysSpeed", "v", "SysTau", "v"),
     OpConn("SysTau", "tau", "SysTmin", "tau"),
     OpConn("SysTau", "tau", "SysTmax", "tau"),
     OpConn("SysFuelWeight", "fuel_w", "SysFuelObj", "fuel_w"),
     OpConn("SysXBspline", "x", "SysBlockTime", "x"),
     OpConn("SysSpeed", "v", "SysBlockTime", "v"),
     OpConn("SysGammaBspline", "Gamma", "SysBlockTime", "Gamma") >>

\* variables promoted to the boundary
CtorBoundary ==
  << OpPass("SysHBspline", "h_pt"),
     OpConn(Self, "h_pt", "SysGammaBspline", "h_pt"),
     OpPass("SysMVBspline", "v_pt"),
     OpPass("SysMVBspline", "M_pt"),
     OpPass("SysTmin", "Tmin"),
     OpPass("SysTmax", "Tmax"),
     OpPass("SysFuelObj", "fuelburn"),
     OpPass("SysBlockTime", "time"),
     OpPass("SysHBspline", "h"),
     OpPass("SysGammaBspline", "Gamma"),
     OpConn(Self, "pax_flt", "SysCLTar", "pax_flt"),
     OpConn(Self, "pax_flt", "SysCTTar", "pax_flt") >>

\* iteration hierarchy and driver settings
CtorHierarchy == << OpWorkflow, OpSettings >>

Ctor ==
  CtorSplines \o CtorAtmospherics \o CtorCoupled \o CtorSolver
  \o CtorFunctionals \o CtorBoundary \o CtorHierarchy

\* the top workflow ending at the solver
TopWorkflow_trunc ==
  << "SysXBspline", "SysHBspline", "SysMVBspline", "SysGammaBspline",
     "SysSFC", "SysTemp", "SysRho", "SysSpeed",
     "coupled_solver" >>

\* the top workflow with SysRho placed before SysTemp
TopWorkflow_swapped ==
  << "SysXBspline", "SysHBspline", "SysMVBspline", "SysGammaBspline",
     "SysSFC", "SysRho", "SysTemp", "SysSpeed",
     "coupled_solver",
     "SysTau", "SysTmin", "SysTmax", "SysFuelObj", "SysBlockTime" >>

\* self.driver.workflow.add([...])
TopWorkflow ==
  << "SysXBspline", "SysHBspline", "SysMVBspline", "SysGammaBspline",
     "SysSFC", "SysTemp", "SysRho", "SysSpeed",
     "coupled_solver",
     "SysTau", "SysTmin", "SysTmax", "SysFuelObj", "SysBlockTime" >>

\* the solver workflow without the weight component
SolverWorkflow_short ==
  << "SysCLTar", CL, CM, CD, "SysCTTar" >>

\* self.coupled_solver.workflow.add([...])
SolverWorkflow ==
  << "SysCLTar", CL, CM, CD, "SysCTTar", "SysFuelWeight" >>

\* ------------------------------------------------------------------------
\* Ports and systems
\* ------------------------------------------------------------------------
CtorOps == { Ctor[i] : i \in 1..Len(Ctor) }

\* the output variables each System declares (sources of its connections)
OutVars(sys) ==
  CASE sys = "SysXBspline" -> {"x"}
    [] sys = "SysHBspline" -> {"h"}
    [] sys = "SysMVBspline" -> {"M", "v_spline"}
    [] sys = "SysGammaBspline" -> {"Gamma"}
    [] sys = "SysSFC" -> {"SFC"}
    [] sys = "SysTemp" -> {"temp"}
    [] sys = "SysRho" -> {"rho"}
    [] sys = "SysSpeed" -> {"v"}
    [] sys = "SysCLTar" -> {"CL"}
    [] sys = CL -> {"alpha", "alpha_res"}
    [] sys = CM -> {"eta", "CM"}
    [] sys = CD -> {"CD"}
    [] sys = "SysCTTar" -> {"CT_tar"}
    [] sys = "SysFuelWeight" -> {"fuel_w"}
    [] sys = "SysTau" -> {"tau"}
    [] sys = "SysTmin" -> {"Tmin"}
    [] sys = "SysTmax" -> {"Tmax"}
    [] sys = "SysFuelObj" -> {"fuelburn"}
    [] sys = "SysBlockTime" -> {"time"}
    [] OTHER -> {}

IsOut(p) == p[2] \in OutVars(p[1])

Ports ==
  { o.src : o \in { o \in CtorOps : o.op \in {"connect", "passthrough",
                                               "parameter", "constraint"} } }
  \cup { o.dst : o \in { o \in CtorOps : o.op = "connect" } }
  \cup { <<Self, o.src[2]>> : o \in { o \in CtorOps : o.op = "passthrough" } }
  \cup { <<"SysXBspline", "x_pt">>, <<Self, "pax_flt">> }

Systems == { o.name : o \in { o \in CtorOps : o.op = "add" } }
             \ {"pax_flt", "coupled_solver"}

\* the keyword arguments each System's constructor is handed
CargKeys(sys) ==
  CASE sys = "SysSFC" -> {"SFCSL"}
    [] sys = "SysCLTar" -> {"wt_pax", "S", "ac_w"}
    [] sys = "SysCTTar" -> {"wt_pax", "S", "ac_w"}
    [] sys = "SysFuelWeight" -> {"S"}
    [] sys = "SysTau" -> {"S", "thrust_sl"}
    [] OTHER -> {}

\* the Systems that evaluate a spline over the control points
SplineSystems ==
  {"SysXBspline", "SysHBspline", "SysMVBspline", "SysGammaBspline"}

\* a control-point array is accepted by a port declared with num_pt entries
ValidLength(len, num_pt) == len = num_pt

\* position of a name in a workflow, 0 when absent
RECURSIVE IndexOf(_, _)
IndexOf(seq, x) ==
  IF seq = <<>> THEN 0
  ELSE IF seq[Len(seq)] = x /\ ~(\E i \in 1..(Len(seq) - 1) : seq[i] = x)
       THEN Len(seq)
       ELSE IndexOf(SubSeq(seq, 1, Len(seq) - 1), x)

RECURSIVE SumVals(_, _)
SumVals(S, P) ==
  IF S = {} THEN 0
  ELSE LET q == CHOOSE q \in S : TRUE
       IN  P[q] + SumVals(S \ {q}, P)

RECURSIVE SumArgs(_, _)
SumArgs(K, f) ==
  IF K = {} THEN 0
  ELSE LET k == CHOOSE k \in K : TRUE
       IN  f[k] + SumArgs(K \ {k}, f)

\* ------------------------------------------------------------------------
\* The residual of the coupled group along the Newton iterates: the norm
\* (as a decimal exponent) at iterate number pos
\* ------------------------------------------------------------------------
ProfAtol == <<3, 0, -4, -10>>     \* meets atol after three steps
ProfRtol == <<3, -2, -7, -10>>    \* meets rtol after two steps, atol after three
ProfStall == <<3>>                \* never decreases

\* the residual behaviour of the three legs
Physics ==
  { [s \in Segs |-> ProfAtol],
    [s \in Segs |-> ProfRtol],
    [s \in Segs |-> ProfStall],
    [s \in Segs |-> CASE s = "seg1" -> ProfStall
                      [] s = "seg2" -> ProfRtol
                      [] OTHER -> ProfAtol] }

PhysicsMPI ==
  { [s \in Segs |-> ProfAtol],
    [s \in Segs |-> CASE s = "seg1" -> ProfStall
                      [] s = "seg2" -> ProfRtol
                      [] OTHER -> ProfAtol] }

NormAt(profile, pos) ==
  IF pos + 1 <= Len(profile) THEN profile[pos + 1] ELSE profile[Len(profile)]

\* ------------------------------------------------------------------------
\* State
\* ------------------------------------------------------------------------
VARIABLES
  script,       \* where the mission script is
  cur,          \* index of the segment being built
  params_file,  \* what the parameter source holds
  asm,          \* per segment: the assembly built by the constructor
  rs,           \* per segment: ports and the position of its run
  mpi,          \* whether the script runs under MPI
  runs,         \* number of model.run() calls started
  start,        \* rs at the start of the current model.run()
  snap,         \* rs at the end of the first model.run()
  comm_size,    \* size of the communicator (0 when unset)
  dist_seg,     \* the gathered tuples, by rank
  report,       \* what rank 0 printed per leg
  crash         \* the exception that ended the script, if any

vars == <<script, cur, params_file, asm, rs, mpi, runs, start, snap,
          comm_size, dist_seg, report, crash>>

NoReport == [s \in Segs |-> -1]
NoCrash == [kind |-> "", seg |-> ""]

Asm0 ==
  [ pc |-> 1, comps |-> {}, conns |-> {}, parameters |-> {},
    constraints |-> {}, workflow |-> <<>>, solver_workflow |-> <<>>,
    cargs |-> [sys \in Systems |-> [k \in CargKeys(sys) |-> 0]],
    attr |-> [k \in ParamKeys \cup {"wt_pax"} |-> 0],
    solver |-> [max_iteration |-> 0, atol |-> 0, rtol |-> 0],
    x_len |-> 0, cp_len |-> 0, profile |-> <<0>> ]

Rs0 ==
  [ port |-> [p \in Ports |-> 0], rpc |-> 0, phase |-> "idle",
    itercount |-> 0, f_norm |-> 0, f_norm0 |-> 0, pos |-> 0,
    result |-> "none", trace |-> <<>> ]

InitWith(files, physics, MPI) ==
  /\ script = "ctor"
  /\ cur = 1
  /\ params_file \in files
  /\ \E ph \in physics : asm = [s \in Segs |-> [Asm0 EXCEPT !.profile = ph[s]]]
  /\ rs = [s \in Segs |-> Rs0]
  /\ mpi = MPI
  /\ runs = 0
  /\ start = [s \in Segs |-> Rs0]
  /\ snap = [s \in Segs |-> Rs0]
  /\ comm_size = 0
  /\ dist_seg = <<>>
  /\ report = NoReport
  /\ crash = NoCrash

\* a serial run
Init == InitWith(ParamFiles, Physics, FALSE)

\* a run under mpirun
InitMPI == InitWith({f \in ParamFiles : f.params = DesignParams}, PhysicsMPI, TRUE)

\* ------------------------------------------------------------------------
\* MissionSegment.__init__, one action per kind of statement
\* ------------------------------------------------------------------------
Building(s) == script = "ctor" /\ SegOrder[cur] = s

CurOp(s) == Ctor[asm[s].pc]

\* the script goes on to its next statement once the constructor returns
AfterOp(s) == script' = IF asm[s].pc = Len(Ctor) THEN "cp" ELSE "ctor"

\* an uncaught exception ends the script
Raise(kind, s) ==
  /\ script' = "crashed"
  /\ crash' = [kind |-> kind, seg |-> s]

\* a loader that falls back to defaults instead of raising
ParamsLoadable_lenient(file) == TRUE

\* execfile raises on a missing file, params['...'] on a missing key
ParamsLoadable(file) == file.kind = "ok"

\* execfile(params_file, data); params = data['params']; self.S = ...
LoadedAttr(file) ==
  [k \in ParamKeys \cup {"wt_pax"} |->
     IF k = "wt_pax" THEN wt_pax ELSE file.params[k]]

LoadParams(s) ==
  /\ Building(s)
  /\ CurOp(s).op = "load"
  /\ IF ~ParamsLoadable(params_file)
     THEN /\ Raise("ConfigurationError", s)
          /\ UNCHANGED <<asm, cur>>
     ELSE /\ \E xl \in {num_cp, num_cp + 1} :
               asm' = [asm EXCEPT ![s].pc = @ + 1,
                                  ![s].attr = LoadedAttr(params_file),
                                  ![s].x_len = xl]
          /\ AfterOp(s)
          /\ UNCHANGED <<crash, cur>>
  /\ UNCHANGED <<params_file, rs, mpi, runs, start, snap, comm_size,
                 dist_seg, report>>

\* the values a System is constructed with are those of the attributes now
CtorArgs(a, sys) == [k \in CargKeys(sys) |-> a.attr[k]]

\* values assigned right after add(): x_pt (line 100), fuel_w (line 184)
InitialPorts(s, n, P) ==
  CASE n = "SysXBspline" -> [P EXCEPT ![<<"SysXBspline", "x_pt">>] = XRange(s)]
    [] n = "SysFuelWeight" -> [P EXCEPT ![<<"SysFuelWeight", "fuel_w">>] = 1]
    [] OTHER -> P

AddSystem(s) ==
  /\ Building(s)
  /\ CurOp(s).op = "add"
  /\ LET n == CurOp(s).name IN
     IF n \in SplineSystems /\ ~ValidLength(asm[s].x_len, num_cp)
     THEN /\ Raise("ConfigurationError", s)
          /\ UNCHANGED <<asm, rs, cur>>
     ELSE /\ asm' = [asm EXCEPT
                       ![s].pc = @ + 1,
                       ![s].comps = @ \cup {n},
                       ![s].cargs = IF n \in Systems
                                    THEN [@ EXCEPT ![n] = CtorArgs(asm[s], n)]
                                    ELSE @]
          /\ rs' = [rs EXCEPT ![s].port = InitialPorts(s, n, @)]
          /\ AfterOp(s)
          /\ UNCHANGED <<crash, cur>>
  /\ UNCHANGED <<params_file, mpi, runs, start, snap, comm_size,
                 dist_seg, report>>

Connect(s) ==
  /\ Building(s)
  /\ CurOp(s).op = "connect"
  /\ asm' = [asm EXCEPT ![s].pc = @ + 1,
                        ![s].conns = @ \cup {<<CurOp(s).src, CurOp(s).dst>>}]
  /\ AfterOp(s)
  /\ UNCHANGED <<cur, params_file, rs, mpi, runs, start, snap, comm_size,
                 dist_seg, report, crash>>

\* a boundary variable of the same name, linked to the inner one
Passthrough(p) ==
  IF IsOut(p) THEN <<p, <<Self, p[2]>>>> ELSE <<<<Self, p[2]>>, p>>

CreatePassthrough(s) ==
  /\ Building(s)
  /\ CurOp(s).op = "passthrough"
  /\ asm' = [asm EXCEPT ![s].pc = @ + 1,
                        ![s].conns = @ \cup {Passthrough(CurOp(s).src)}]
  /\ AfterOp(s)
  /\ UNCHANGED <<cur, params_file, rs, mpi, runs, start, snap, comm_size,
                 dist_seg, report, crash>>

AddParameter(s) ==
  /\ Building(s)
  /\ CurOp(s).op = "parameter"
  /\ asm' = [asm EXCEPT ![s].pc = @ + 1,
                        ![s].parameters = @ \cup {CurOp(s).src}]
  /\ AfterOp(s)
  /\ UNCHANGED <<cur, params_file, rs, mpi, runs, start, snap, comm_size,
                 dist_seg, report, crash>>

AddConstraint(s) ==
  /\ Building(s)
  /\ CurOp(s).op = "constraint"
  /\ asm' = [asm EXCEPT ![s].pc = @ + 1,
                        ![s].constraints = @ \cup {CurOp(s).src}]
  /\ AfterOp(s)
  /\ UNCHANGED <<cur, params_file, rs, mpi, runs, start, snap, comm_size,
                 dist_seg, report, crash>>

WorkflowAdd(s) ==
  /\ Building(s)
  /\ CurOp(s).op = "workflow"
  /\ asm' = [asm EXCEPT ![s].pc = @ + 1,
                        ![s].workflow = @ \o TopWorkflow,
                        ![s].solver_workflow = @ \o SolverWorkflow]
  /\ AfterOp(s)
  /\ UNCHANGED <<cur, params_file, rs, mpi, runs, start, snap, comm_size,
                 dist_seg, report, crash>>

SolverSettings(s) ==
  /\ Building(s)
  /\ CurOp(s).op = "settings"
  /\ asm' = [asm EXCEPT ![s].pc = @ + 1,
                        ![s].solver = [max_iteration |-> max_iteration,
                                       atol |-> atol, rtol |-> rtol]]
  /\ AfterOp(s)
  /\ UNCHANGED <<cur, params_file, rs, mpi, runs, start, snap, comm_size,
                 dist_seg, report, crash>>

\* ------------------------------------------------------------------------
\* The script's statements after each constructor call
\* ------------------------------------------------------------------------
\* initial altitude profile fitted by set_init_h_pt (least squares, gmres)
HFit(s) == XRange(s) + 10
M_init == 820

\* model.segN.h_pt = h_init; .M_pt = M_init; .set_init_h_pt(altitude)
SetControlPoints(s) ==
  /\ script = "cp"
  /\ SegOrder[cur] = s
  /\ \E len \in {num_cp, num_cp + 1} :
       IF ~ValidLength(len, num_cp)
       THEN /\ Raise("ConfigurationError", s)
            /\ asm' = [asm EXCEPT ![s].cp_len = len]
            /\ UNCHANGED rs
       ELSE /\ asm' = [asm EXCEPT ![s].cp_len = len]
            /\ rs' = [rs EXCEPT ![s].port =
                        [@ EXCEPT ![<<Self, "h_pt">>] = HFit(s),
                                  ![<<Self, "M_pt">>] = M_init]]
            /\ script' = "params"
            /\ UNCHANGED crash
  /\ UNCHANGED <<cur, params_file, mpi, runs, start, snap, comm_size,
                 dist_seg, report>>

\* model.segN.S = ...; .ac_w = ...; ... .oswald = ...
WrittenAttr(a) ==
  [k \in DOMAIN a.attr |-> IF k \in ParamKeys THEN DesignParams[k]
                           ELSE a.attr[k]]

SetDesignParams(s) ==
  /\ script = "params"
  /\ SegOrder[cur] = s
  /\ asm' = [asm EXCEPT ![s].attr = WrittenAttr(asm[s])]
  /\ IF cur < 3
     THEN cur' = cur + 1 /\ script' = "ctor"
     ELSE cur' = cur /\ script' = "assembled"
  /\ UNCHANGED <<params_file, rs, mpi, runs, start, snap, comm_size,
                 dist_seg, report, crash>>

\* ------------------------------------------------------------------------
\* The mission assembly: model.add('segN', ...), model.driver.workflow.add
\* ------------------------------------------------------------------------
MissionWorkflow == SegOrder

\* a mission in which seg2 takes an input from seg1's output
MissionConns_chained ==
  { << <<"seg1", <<Self, "fuelburn">>>>, <<"seg2", <<Self, "pax_flt">>>> >> }

\* the script connects no variable of one segment to another
MissionConns == {}

\* ------------------------------------------------------------------------
\* Executing a System: transfer its inputs along the connections, compute
\* its outputs from its inputs and constructor arguments, refresh the
\* boundary variables linked to its outputs
\* ------------------------------------------------------------------------
Connected(a, p) == \E c \in a.conns : c[2] = p
SrcOf(a, p) == (CHOOSE c \in a.conns : c[2] = p)[1]

Inputs(sys) == { q \in Ports : q[1] = sys /\ ~IsOut(q) }

Code(p) ==
  31 * IndexOf(TopWorkflow \o SolverWorkflow, p[1])
  + (IF p[2] \in {"v_spline", "alpha_res", "CM"} THEN 1 ELSE 0)

Pull(a, P, members) ==
  LET D == { p \in Ports : p[1] \in members /\ Connected(a, p) }
  IN  [p \in D |-> P[SrcOf(a, p)]] @@ P

Push(a, P, members) ==
  LET D == { p \in Ports : /\ p[1] = Self
                           /\ Connected(a, p)
                           /\ SrcOf(a, p)[1] \in members }
  IN  [p \in D |-> P[SrcOf(a, p)]] @@ P

Compute(a, P, p) ==
  (Code(p) + SumVals(Inputs(p[1]), P)
   + SumArgs(CargKeys(p[1]), a.cargs[p[1]])) % ValueMod

ExecSystem(a, P, sys) ==
  LET P1 == Pull(a, P, {sys})
      P2 == [p \in {sys} \X OutVars(sys) |-> Compute(a, P1, p)] @@ P1
  IN  Push(a, P2, {sys})

\* ------------------------------------------------------------------------
\* The coupled group as a black box: one evaluation of its workflow at the
\* current values of the solver's parameters
\* ------------------------------------------------------------------------
Members(a) == { a.solver_workflow[i] : i \in 1..Len(a.solver_workflow) }

ExternalInputs(a) ==
  { q \in Ports : /\ q[1] \in Members(a)
                  /\ ~IsOut(q)
                  /\ ~(Connected(a, q) /\ SrcOf(a, q)[1] \in Members(a)) }

RECURSIVE SumGroupArgs(_, _)
SumGroupArgs(M, a) ==
  IF M = {} THEN 0
  ELSE LET m == CHOOSE m \in M : TRUE
       IN  SumArgs(CargKeys(m), a.cargs[m]) + SumGroupArgs(M \ {m}, a)

\* what every output of the group depends on: the inputs that come from
\* outside the group, the solver's parameters, the constructor arguments
GroupSum(a, P) ==
  SumVals(ExternalInputs(a), P) + SumVals(a.parameters, P)
  + SumGroupArgs(Members(a), a)

GroupOutputs(a) ==
  { p \in Ports : p[1] \in Members(a) /\ IsOut(p) /\ p \notin a.parameters }

EvalGroup(a, P) ==
  LET P1 == Pull(a, P, Members(a))
      sum == GroupSum(a, P1)
      P2 == [p \in GroupOutputs(a) |-> (Code(p) + sum) % ValueMod] @@ P1
  IN  Pull(a, P2, Members(a))

\* ------------------------------------------------------------------------
\* One run of a segment's top workflow, as successor functions on rs
\* ------------------------------------------------------------------------
Done(a, r) == r.rpc > Len(a.workflow)
Running(a, r) == r.rpc \in 1..Len(a.workflow)
Step(a, r) == a.workflow[r.rpc]

\* values arriving over mission-level connections when the segment starts
PullMission(R, s) ==
  LET D == { p \in Ports : R[s].rpc = 1 /\ \E c \in MissionConns : c[2] = <<s, p>> }
      src(p) == (CHOOSE c \in MissionConns : c[2] = <<s, p>>)[1]
  IN  [p \in D |-> R[src(p)[1]].port[src(p)[2]]] @@ R[s].port

StepSystemRs(R, s) ==
  [R[s] EXCEPT !.port = ExecSystem(asm[s], PullMission(R, s), Step(asm[s], R[s])),
               !.rpc = @ + 1,
               !.trace = Append(@, Step(asm[s], R[s]))]

\* initial evaluation of the residual
SolverEvaluateRs(R, s) ==
  [R[s] EXCEPT !.port = EvalGroup(asm[s], PullMission(R, s)),
               !.phase = "loop",
               !.itercount = 0,
               !.f_norm = NormAt(asm[s].profile, R[s].pos),
               !.f_norm0 = NormAt(asm[s].profile, R[s].pos)]

WithinTol(cfg, r) ==
  r.f_norm <= cfg.atol \/ r.f_norm - r.f_norm0 <= cfg.rtol

Continue(cfg, r) ==
  r.itercount < cfg.max_iteration /\ ~WithinTol(cfg, r)

\* state += delta; evaluate the residual again
NewtonUpdate(a, P) ==
  [p \in a.parameters |-> (P[p] + 1) % ValueMod] @@ P

SolverIterateRs(R, s) ==
  [R[s] EXCEPT !.port = EvalGroup(asm[s], NewtonUpdate(asm[s], R[s].port)),
               !.pos = @ + 1,
               !.itercount = @ + 1,
               !.f_norm = NormAt(asm[s].profile, R[s].pos + 1)]

\* the workflow is executed at the final point and the driver returns
SolverFinishRs(R, s) ==
  [R[s] EXCEPT !.port = Push(asm[s], EvalGroup(asm[s], R[s].port),
                             Members(asm[s])),
               !.phase = "idle",
               !.result = IF WithinTol(asm[s].solver, R[s])
                          THEN "converged" ELSE "maxiter",
               !.rpc = @ + 1,
               !.trace = Append(@, "coupled_solver")]

AtSystem(R, s) ==
  Running(asm[s], R[s]) /\ Step(asm[s], R[s]) # "coupled_solver"
AtSolver(R, s) ==
  Running(asm[s], R[s]) /\ Step(asm[s], R[s]) = "coupled_solver"

NextRs(R, s) ==
  CASE AtSystem(R, s) -> StepSystemRs(R, s)
    [] AtSolver(R, s) /\ R[s].phase = "idle" -> SolverEvaluateRs(R, s)
    [] AtSolver(R, s) /\ R[s].phase = "loop"
         /\ Continue(asm[s].solver, R[s]) -> SolverIterateRs(R, s)
    [] AtSolver(R, s) /\ R[s].phase = "loop"
         /\ ~Continue(asm[s].solver, R[s]) -> SolverFinishRs(R, s)
    [] OTHER -> R[s]

\* the run of one segment to its end
MaxSteps == 40

RECURSIVE RunToEnd(_, _, _)
RunToEnd(R, s, fuel) ==
  IF fuel = 0 \/ ~Running(asm[s], R[s]) THEN R
  ELSE RunToEnd([R EXCEPT ![s] = NextRs(R, s)], s, fuel - 1)

\* the segments run one after the other in the order of the workflow
RECURSIVE RunInOrder(_, _)
RunInOrder(R, order) ==
  IF order = <<>> THEN R
  ELSE RunInOrder(RunToEnd(R, Head(order), MaxSteps), Tail(order))

\* ------------------------------------------------------------------------
\* model.run() and what follows it in the script
\* ------------------------------------------------------------------------
Fresh(R) ==
  [s \in Segs |-> [R[s] EXCEPT !.rpc = 1, !.phase = "idle", !.trace = <<>>]]

\* model.driver.workflow.add([...]); model._setup(); model.run()
ModelRun ==
  /\ script = "assembled"
  /\ rs' = Fresh(rs)
  /\ start' = Fresh(rs)
  /\ runs' = 1
  /\ script' = "running"
  /\ UNCHANGED <<cur, params_file, asm, mpi, snap, comm_size, dist_seg,
                 report, crash>>

\* a serial run takes the segments in workflow order; under MPI each
\* segment runs in its own process
MayRun(s) ==
  /\ script = "running"
  /\ ~mpi =>
       \A i \in 1..(IndexOf(MissionWorkflow, s) - 1) :
          Done(asm[MissionWorkflow[i]], rs[MissionWorkflow[i]])

StepSystem(s) ==
  /\ MayRun(s)
  /\ AtSystem(rs, s)
  /\ rs' = [rs EXCEPT ![s] = StepSystemRs(rs, s)]
  /\ UNCHANGED <<script, cur, params_file, asm, mpi, runs, start, snap,
                 comm_size, dist_seg, report, crash>>

SolverEvaluate(s) ==
  /\ MayRun(s)
  /\ AtSolver(rs, s)
  /\ rs[s].phase = "idle"
  /\ rs' = [rs EXCEPT ![s] = SolverEvaluateRs(rs, s)]
  /\ UNCHANGED <<script, cur, params_file, asm, mpi, runs, start, snap,
                 comm_size, dist_seg, report, crash>>

SolverIterate(s) ==
  /\ MayRun(s)
  /\ AtSolver(rs, s)
  /\ rs[s].phase = "loop"
  /\ Continue(asm[s].solver, rs[s])
  /\ rs' = [rs EXCEPT ![s] = SolverIterateRs(rs, s)]
  /\ UNCHANGED <<script, cur, params_file, asm, mpi, runs, start, snap,
                 comm_size, dist_seg, report, crash>>

SolverFinish(s) ==
  /\ MayRun(s)
  /\ AtSolver(rs, s)
  /\ rs[s].phase = "loop"
  /\ ~Continue(asm[s].solver, rs[s])
  /\ rs' = [rs EXCEPT ![s] = SolverFinishRs(rs, s)]
  /\ UNCHANGED <<script, cur, params_file, asm, mpi, runs, start, snap,
                 comm_size, dist_seg, report, crash>>

\* the Systems that check the range of their inputs: altitude outside the
\* spline support, negative density
RaisingSystems == {"SysHBspline", "SysRho"}

\* a System finds an input outside its valid range and raises; nothing
\* between the System and the top of the script catches the exception
DomainError(s) ==
  /\ MayRun(s)
  /\ AtSystem(rs, s)
  /\ Step(asm[s], rs[s]) \in RaisingSystems
  /\ Raise("NumericalDomainError", s)
  /\ UNCHANGED <<cur, params_file, asm, rs, mpi, runs, start, snap,
                 comm_size, dist_seg, report>>

AllDone == \A s \in Segs : Done(asm[s], rs[s])

fuelburn(s) == rs[s].port[<<"SysFuelObj", "fuelburn">>]

\* print "segN fuel burn", model.segN.SysFuelObj.fuelburn
ReportSerial ==
  /\ script = "running"
  /\ AllDone
  /\ ~mpi
  /\ report' = [s \in Segs |-> fuelburn(s)]
  /\ script' = "done"
  /\ UNCHANGED <<cur, params_file, asm, rs, mpi, runs, start, snap,
                 comm_size, dist_seg, crash>>

\* dist_seg = comm.gather(fuelburn, root=0): one tuple per rank; a rank
\* holds the computed value of the legs it ran and the old value of the rest
Gather ==
  /\ script = "running"
  /\ AllDone
  /\ mpi
  /\ \E n \in 1..MaxComm :
       \E owner \in [Segs -> 0..(n - 1)] :
          /\ comm_size' = n
          /\ dist_seg' = [r \in 0..(n - 1) |->
                            [s \in Segs |->
                               IF owner[s] = r THEN fuelburn(s)
                               ELSE start[s].port[<<"SysFuelObj", "fuelburn">>]]]
  /\ script' = "gathered"
  /\ UNCHANGED <<cur, params_file, asm, rs, mpi, runs, start, snap,
                 report, crash>>

Max3(a, b, c) ==
  IF a >= b /\ a >= c THEN a ELSE IF b >= c THEN b ELSE c

\* rank 0: print "segN fuel burn", max(dist_seg[0][i], dist_seg[1][i],
\* dist_seg[2][i])
Reported(d) ==
  [s \in Segs |-> Max3(d[0][s], d[1][s], d[2][s])]

ReportMPI ==
  /\ script = "gathered"
  /\ IF {0, 1, 2} \subseteq DOMAIN dist_seg
     THEN /\ report' = Reported(dist_seg)
          /\ script' = "done"
          /\ UNCHANGED crash
     ELSE /\ Raise("IndexError", "")
          /\ UNCHANGED report
  /\ UNCHANGED <<cur, params_file, asm, rs, mpi, runs, start, snap,
                 comm_size, dist_seg>>

\* the caller runs the model once more without touching any port
RunAgain ==
  /\ script = "done"
  /\ runs < MaxRuns
  /\ snap' = IF runs = 1 THEN rs ELSE snap
  /\ rs' = Fresh(rs)
  /\ start' = Fresh(rs)
  /\ runs' = runs + 1
  /\ script' = "running"
  /\ report' = NoReport
  /\ comm_size' = 0
  /\ dist_seg' = <<>>
  /\ UNCHANGED <<cur, params_file, asm, mpi, crash>>

Construct(s) ==
  \/ LoadParams(s)
  \/ AddSystem(s)
  \/ Connect(s)
  \/ CreatePassthrough(s)
  \/ AddParameter(s)
  \/ AddConstraint(s)
  \/ WorkflowAdd(s)
  \/ SolverSettings(s)

RunSegment(s) ==
  \/ StepSystem(s)
  \/ SolverEvaluate(s)
  \/ SolverIterate(s)
  \/ SolverFinish(s)
  \/ DomainError(s)

Next ==
  \/ \E s \in Segs : Construct(s)
  \/ \E s \in Segs : SetControlPoints(s)
  \/ \E s \in Segs : SetDesignParams(s)
  \/ ModelRun
  \/ \E s \in Segs : RunSegment(s)
  \/ ReportSerial
  \/ RunAgain

NextMPI ==
  \/ \E s \in Segs : Construct(s)
  \/ \E s \in Segs : SetControlPoints(s)
  \/ \E s \in Segs : SetDesignParams(s)
  \/ ModelRun
  \/ \E s \in Segs : RunSegment(s)
  \/ Gather
  \/ ReportMPI

Spec == Init /\ [][Next]_vars

SpecMPI == InitMPI /\ [][NextMPI]_vars

\* ------------------------------------------------------------------------
\* Properties
\* ------------------------------------------------------------------------
Built(s) == asm[s].pc > Len(Ctor)

Executed(s, step) == \E i \in 1..Len(rs[s].trace) : rs[s].trace[i] = step

\* the solver of s has returned in the current run
SolverStopped(s) == Executed(s, "coupled_solver")

\* ... without having met the tolerances
Exhausted(s) == SolverStopped(s) /\ rs[s].result = "maxiter"

AfterSolver == <<"SysTau", "SysTmin", "SysTmax", "SysFuelObj", "SysBlockTime">>

\* C1: the Newton loop of coupled_solver never makes more than 15 outer
\* iterations, and when it has stopped after fewer than 15 the residual
\* norm is within atol or rtol.
C1_NewtonTerminates ==
  \A s \in Segs :
    /\ rs[s].itercount <= 15
    /\ (SolverStopped(s) /\ rs[s].itercount < 15) =>
          (rs[s].f_norm <= atol \/ rs[s].f_norm - rs[s].f_norm0 <= rtol)

\* a solver that stopped at 15 iterations with the residual out of tolerance
C1_Witness ==
  \E s \in Segs :
    /\ SolverStopped(s)
    /\ rs[s].itercount = 15
    /\ rs[s].f_norm > atol
    /\ rs[s].f_norm - rs[s].f_norm0 > rtol

\* C2: a solver that exhausts its iteration budget does not end the run:
\* the segment is never the one that aborted, what remains of its workflow
\* is SysTau, SysTmin, SysTmax, SysFuelObj, SysBlockTime in that order, and
\* when the script has reported, every segment has run to its end and has a
\* fuel-burn value reported.
C2_NonConvergenceNotFatal ==
  \A s \in Segs :
    Exhausted(s) =>
      /\ crash.seg # s
      /\ Running(asm[s], rs[s]) =>
           \E i \in 1..Len(AfterSolver) : Step(asm[s], rs[s]) = AfterSolver[i]
      /\ Done(asm[s], rs[s]) =>
           /\ Len(rs[s].trace) >= Len(AfterSolver)
           /\ SubSeq(rs[s].trace, Len(rs[s].trace) - Len(AfterSolver) + 1,
                     Len(rs[s].trace)) = AfterSolver
      /\ script = "done" =>
           \A t \in Segs : /\ Done(asm[t], rs[t])
                           /\ report[t] = fuelburn(t)
                           /\ report[t] >= 0

\* the script has reported after a run in which a solver ran out of budget
C2_Witness ==
  /\ script = "done"
  /\ \E s \in Segs : Exhausted(s) /\ rs[s].itercount = max_iteration
  /\ \A t \in Segs : report[t] = fuelburn(t) /\ Executed(t, "SysBlockTime")

\* C3 (as claimed): when a System of one segment has failed with a
\* numerical-domain error, every other segment has run its workflow to the
\* end and its fuel burn has been reported.
C3_ErrorConfinedToSegment ==
  crash.kind = "NumericalDomainError" =>
    \A t \in Segs \ {crash.seg} :
       Done(asm[t], rs[t]) /\ report[t] = fuelburn(t)

SetMax(S) == CHOOSE m \in S : \A x \in S : x <= m

\* C4 (as claimed): once rank 0 is past its reporting step, the value it
\* reported for each leg is the maximum of that leg over the tuples
\* gathered from all ranks, whatever the size of the communicator.
C4_ReportIsMaxOverRanks ==
  (comm_size > 0 /\ script \in {"done", "crashed"}) =>
    \A s \in Segs :
       report[s] = SetMax({ dist_seg[r][s] : r \in DOMAIN dist_seg })

\* the run of the three segments in the order seg1, seg2, seg3
Sequential == RunInOrder(start, MissionWorkflow)

\* the gathered tuples had the legs been computed with fuel burns seqfuel
SequentialDist(seqfuel) ==
  [r \in DOMAIN dist_seg |->
     [s \in Segs |->
        IF dist_seg[r][s] = start[s].port[<<"SysFuelObj", "fuelburn">>]
        THEN dist_seg[r][s]
        ELSE seqfuel[s]]]

\* C5: no connection joins two segments, and whatever the interleaving of
\* the three segment workflows, once all have finished every port of every
\* segment holds the value it has after the sequential run seg1, seg2,
\* seg3, and the per-leg values reported are those of the sequential run.
C5_OrderIndependent ==
  /\ \A c \in MissionConns : c[1][1] = c[2][1]
  /\ AllDone =>
       LET seq == Sequential
           seqfuel == [s \in Segs |-> seq[s].port[<<"SysFuelObj", "fuelburn">>]]
       IN  /\ \A s \in Segs : rs[s].port = seq[s].port
           /\ script = "done" => report = Reported(SequentialDist(seqfuel))

\* rank 0 has reported the computed fuel burn of three legs run under MPI
C5_Witness ==
  /\ mpi
  /\ script = "done"
  /\ \A s \in Segs : Executed(s, "SysFuelObj") /\ report[s] = fuelburn(s)

\* C6: in the connections assembled so far, no input port is the
\* destination of two connections (a source may occur several times).
C6_SingleSource ==
  \A s \in Segs :
    Cardinality({ c[2] : c \in asm[s].conns }) = Cardinality(asm[s].conns)

\* a built segment in which one output feeds several inputs
C6_Witness ==
  \E s \in Segs :
    /\ Built(s)
    /\ Cardinality({ c \in asm[s].conns : c[1] = <<"SysHBspline", "h">> }) > 1
    /\ <<<<Self, "h_pt">>, <<"SysGammaBspline", "h_pt">>>> \in asm[s].conns

\* the top-level step a System belongs to, 0 if none
StepOf(a, sys) ==
  IF sys \in Members(a) THEN IndexOf(a.workflow, "coupled_solver")
  ELSE IndexOf(a.workflow, sys)

\* C7: with coupled_solver and its members as one step, every connection
\* between two different top-level steps goes from an earlier step to a
\* later one; so a connection that goes backwards in the order of the
\* Systems has both ends inside the coupled group.
C7_TopologicalOrder ==
  \A s \in Segs :
    \A c \in asm[s].conns :
      LET i == StepOf(asm[s], c[1][1])
          j == StepOf(asm[s], c[2][1])
      IN  (i > 0 /\ j > 0 /\ i # j) => i < j

\* a built segment with a forward connection between two steps and a
\* cycle inside the coupled group
C7_Witness ==
  \E s \in Segs :
    /\ Built(s)
    /\ <<<<"SysTemp", "temp">>, <<"SysRho", "temp">>>> \in asm[s].conns
    /\ StepOf(asm[s], "SysTemp") < StepOf(asm[s], "SysRho")
    /\ <<<<"SysFuelWeight", "fuel_w">>, <<"SysCLTar", "fuel_w">>>> \in asm[s].conns
    /\ <<<<"SysCTTar", "CT_tar">>, <<"SysFuelWeight", "CT_tar">>>> \in asm[s].conns
    /\ StepOf(asm[s], "SysFuelWeight") = StepOf(asm[s], "SysCLTar")

\* C8 (as claimed): in a segment that has run, every System has computed
\* with the value the boundary attribute holds, i.e. the value the caller
\* wrote after construction.
C8_WrittenValueUsed ==
  \A s \in Segs :
    Done(asm[s], rs[s]) =>
      \A sys \in Systems :
        \A k \in CargKeys(sys) \cap ParamKeys :
          asm[s].cargs[sys][k] = asm[s].attr[k]

\* C9 (as claimed): after a second run with no port changed in between,
\* every output port of a segment whose solver converged in the first run
\* holds the value it had after the first run.
C9_SecondRunIdentical ==
  (script = "done" /\ runs = 2) =>
    \A s \in Segs :
      snap[s].result = "converged" =>
        \A p \in { q \in Ports : IsOut(q) \/ q[1] = Self } :
          rs[s].port[p] = snap[s].port[p]

Count(seq, x) == Cardinality({ i \in 1..Len(seq) : seq[i] = x })

\* what add() was called with, the boundary variable pax_flt aside
Added(s) == asm[s].comps \ {"pax_flt"}

\* C11: in a built segment every System added occurs once in the two
\* workflows taken together and the top workflow has 14 steps; during a run
\* the steps executed so far are the first steps of the top workflow, each
\* once, and a finished run has executed the 14 listed steps in the listed
\* order, coupled_solver once between SysSpeed and SysTau.
C11_EachStepOnceInOrder ==
  \A s \in Segs :
    /\ Built(s) =>
         /\ \A sys \in Added(s) :
              Count(asm[s].workflow, sys) + Count(asm[s].solver_workflow, sys) = 1
         /\ Len(asm[s].workflow) = 14
    /\ rs[s].rpc >= 1 =>
         /\ Len(rs[s].trace) = rs[s].rpc - 1
         /\ \A i \in 1..Len(rs[s].trace) : rs[s].trace[i] = asm[s].workflow[i]
    /\ Done(asm[s], rs[s]) =>
         rs[s].trace =
           << "SysXBspline", "SysHBspline", "SysMVBspline", "SysGammaBspline",
              "SysSFC", "SysTemp", "SysRho", "SysSpeed",
              "coupled_solver",
              "SysTau", "SysTmin", "SysTmax", "SysFuelObj", "SysBlockTime" >>

\* a finished run in which the solver iterated and the script has reported
C11_Witness ==
  /\ script = "done"
  /\ \A s \in Segs : Done(asm[s], rs[s]) /\ Len(rs[s].trace) = 14
  /\ \E s \in Segs : rs[s].itercount > 1 /\ Count(rs[s].trace, "coupled_solver") = 1

\* C12: the coupled group of a built segment is the six Systems SysCLTar,
\* the three surrogates, SysCTTar and SysFuelWeight; at every point of the
\* construction the solver's states are among alpha and eta, and once built
\* they are exactly these two, the residuals are exactly alpha_res and CM,
\* and each state has exactly one residual, on its own System.
C12_TwoImplicitStates ==
  \A s \in Segs :
    /\ asm[s].parameters \subseteq {<<CL, "alpha">>, <<CM, "eta">>}
    /\ Built(s) =>
         /\ Members(asm[s]) = {"SysCLTar", CL, CM, CD, "SysCTTar", "SysFuelWeight"}
         /\ Len(asm[s].solver_workflow) = 6
         /\ asm[s].parameters = {<<CL, "alpha">>, <<CM, "eta">>}
         /\ asm[s].constraints = {<<CL, "alpha_res">>, <<CM, "CM">>}
         /\ \A p \in asm[s].parameters :
              Cardinality({ c \in asm[s].constraints : c[1] = p[1] }) = 1

\* a segment whose solver has moved its two states
C12_Witness ==
  \E s \in Segs :
    /\ Built(s)
    /\ SolverStopped(s)
    /\ rs[s].itercount > 0
    /\ Cardinality(asm[s].parameters) = 2
    /\ Cardinality(asm[s].constraints) = 2

====
